---------------------------- MODULE Spec2Model ----------------------------
(***************************************************************************)
(* Model of the two survey-analysis scripts of the repository:             *)
(*   needfinding_eval/needfinding_results.py      (question classifier,    *)
(*       select-all / multiple-choice counting, chart ordering, pie cap,   *)
(*       analyze_survey and save_results)                                  *)
(*   initial_prototypes_eval/prototype_analysis.py (Likert statistics,     *)
(*       chi-squared omnibus, pairwise KS with Bonferroni, ranking test,   *)
(*       main and the files it writes)                                     *)
(*                                                                         *)
(* Python values are represented as follows.                               *)
(*   str            a TLA+ string; characters are read with SubSeq(s,i,i)  *)
(*   list           a sequence                                             *)
(*   dict / Counter a sequence of records [key, count] in insertion order  *)
(*                  (Python dicts iterate in insertion order)              *)
(*   float          an exact rational [num, den] with den > 0, or a tagged *)
(*                  record for nan; rounding of floats is not modelled     *)
(***************************************************************************)
EXTENDS Integers, Sequences, FiniteSets, TLC

VARIABLES
    pc,               \* control location of the running function
    question_text,    \* question_data['text'] / question_text argument
    question_type,    \* value returned by identify_question_type
    answers,          \* the list of raw answers being processed
    idx,              \* number of loop iterations already executed
    all_options,      \* process_select_all_question: all_options
    counter,          \* Counter returned by the processing functions / data
    sorted_data,      \* order_data_for_chart result, pie/bar categories
    likert_data,      \* get_likert_data result
    stats_results,    \* calculate_descriptive_stats result
    omnibus_results,  \* perform_chi_squared_omnibus result
    pairwise_results, \* perform_pairwise_ks_tests result
    ranking_results,  \* analyze_ranking_questions result
    survey_data,      \* analyze_survey: data, the list of question records
    chart_number,     \* analyze_survey: chart_number
    figures,          \* analyze_survey: figures
    results,          \* analyze_survey: results
    json_results,     \* save_results: the mapping dumped to survey_results.json
    files,            \* names of the files written so far, in order
    stdout,           \* sys.stdout: "console" or the name of the file it writes to
    console,          \* what prototype_analysis has printed to the console
    report            \* what has been printed into analysis_results.txt

surveyVars == <<survey_data, chart_number, figures, results, json_results>>
outVars == <<files, stdout, console, report>>
needVars == <<question_text, question_type, all_options, counter, sorted_data, surveyVars>>
protoVars == <<likert_data, stats_results, omnibus_results, pairwise_results,
               ranking_results>>
vars == <<pc, answers, idx, needVars, protoVars, outVars>>

\* The value of a variable the running function does not use.
None == "<none>"

SurveyIdle ==
    /\ survey_data = <<>> /\ chart_number = 1 /\ figures = <<>>
    /\ results = <<>> /\ json_results = <<>>

\* Nothing written or printed yet.
OutIdle == files = <<>> /\ stdout = "console" /\ console = <<>> /\ report = <<>>

NeedIdle ==
    /\ question_text = None /\ question_type = None /\ all_options = <<>>
    /\ counter = <<>> /\ sorted_data = <<>>
    /\ SurveyIdle

ProtoIdle ==
    /\ likert_data = <<>> /\ stats_results = <<>> /\ omnibus_results = <<>>
    /\ pairwise_results = <<>> /\ ranking_results = <<>>

-----------------------------------------------------------------------------
(* Generic helpers                                                         *)

RECURSIVE SeqsUpTo(_, _)
\* All sequences over S of length at most n.
SeqsUpTo(S, n) ==
    IF n = 0 THEN {<<>>}
    ELSE LET shorter == SeqsUpTo(S, n - 1)
         IN  shorter \cup {Append(s, x) : s \in {t \in shorter : Len(t) = n - 1}, x \in S}

RECURSIVE SumSeq(_)
SumSeq(s) == IF s = <<>> THEN 0 ELSE Head(s) + SumSeq(Tail(s))

RECURSIVE ProdSeq(_)
ProdSeq(s) == IF s = <<>> THEN 1 ELSE Head(s) * ProdSeq(Tail(s))

Range(s) == {s[i] : i \in DOMAIN s}

Reverse(s) == [i \in 1..Len(s) |-> s[Len(s) + 1 - i]]

\* Number of positions of seq holding x (list.count).
CountIn(x, seq) == Cardinality({i \in DOMAIN seq : seq[i] = x})

-----------------------------------------------------------------------------
(* Python str methods                                                      *)

UpperAlpha == "ABCDEFGHIJKLMNOPQRSTUVWXYZ"
LowerAlpha == "abcdefghijklmnopqrstuvwxyz"
Digits == {"0", "1", "2", "3", "4", "5", "6", "7", "8", "9"}
Whitespace == {" ", "\t", "\n"}

Char(s, i) == SubSeq(s, i, i)

UpperChars == {Char(UpperAlpha, i) : i \in 1..26}

\* The lower-case letter of each upper-case one.
LowerOf == [c \in UpperChars |-> Char(LowerAlpha, CHOOSE i \in 1..26 : Char(UpperAlpha, i) = c)]

LowerChar(c) == IF c \in UpperChars THEN LowerOf[c] ELSE c

RECURSIVE Lower(_)
\* str.lower()
Lower(s) == IF s = "" THEN "" ELSE LowerChar(Head(s)) \o Lower(Tail(s))

\* sub in s
Contains(sub, s) ==
    \E i \in 1..(Len(s) - Len(sub) + 1) : SubSeq(s, i, i + Len(sub) - 1) = sub

RECURSIVE LStrip(_)
LStrip(s) == IF s # "" /\ Head(s) \in Whitespace THEN LStrip(Tail(s)) ELSE s

RECURSIVE RStrip(_)
RStrip(s) ==
    IF s # "" /\ Char(s, Len(s)) \in Whitespace
    THEN RStrip(SubSeq(s, 1, Len(s) - 1))
    ELSE s

\* str.strip()
Strip(s) == RStrip(LStrip(s))

RECURSIVE SplitFrom(_, _, _)
\* The pieces of s from position i on, cur being the piece read so far.
SplitFrom(s, sep, cur) ==
    IF s = "" THEN <<cur>>
    ELSE IF Head(s) = sep THEN <<cur>> \o SplitFrom(Tail(s), sep, "")
    ELSE SplitFrom(Tail(s), sep, cur \o Head(s))

\* str.split(sep) for a one-character separator: always at least one piece.
Split(s, sep) == SplitFrom(s, sep, "")

\* str.isdigit(): non-empty and every character a digit.
IsDigit(s) == s # "" /\ \A i \in 1..Len(s) : Char(s, i) \in Digits

DigitValue(c) ==
    CASE c = "0" -> 0 [] c = "1" -> 1 [] c = "2" -> 2 [] c = "3" -> 3
      [] c = "4" -> 4 [] c = "5" -> 5 [] c = "6" -> 6 [] c = "7" -> 7
      [] c = "8" -> 8 [] c = "9" -> 9

RECURSIVE ToIntAcc(_, _)
ToIntAcc(s, acc) ==
    IF s = "" THEN acc ELSE ToIntAcc(Tail(s), 10 * acc + DigitValue(Head(s)))

\* int(s) for a digit-only string.
ToInt(s) == ToIntAcc(s, 0)

-----------------------------------------------------------------------------
(* collections.Counter                                                     *)

Keys(d) == [i \in DOMAIN d |-> d[i].key]
Values(d) == [i \in DOMAIN d |-> d[i].count]
HasKey(d, k) == \E i \in DOMAIN d : d[i].key = k
\* d[k] for a key that is present
Get(d, k) == d[CHOOSE i \in DOMAIN d : d[i].key = k].count
\* d.get(k, default)
GetOr(d, k, default) == IF HasKey(d, k) THEN Get(d, k) ELSE default
\* The dict as an unordered mapping: its set of (key, count) pairs.
AsMapping(d) == Range(d)

RECURSIVE CounterAcc(_, _)
CounterAcc(items, acc) ==
    IF items = <<>> THEN acc
    ELSE LET x == Head(items)
         IN  CounterAcc(Tail(items),
                IF HasKey(acc, x)
                THEN [i \in DOMAIN acc |->
                        IF acc[i].key = x
                        THEN [key |-> x, count |-> acc[i].count + 1]
                        ELSE acc[i]]
                ELSE Append(acc, [key |-> x, count |-> 1]))

\* Counter(items): keys in order of first occurrence.
Counter(items) == CounterAcc(items, <<>>)

-----------------------------------------------------------------------------
(* needfinding_results.py: question classifier                             *)

FreeTextPhrases ==
    <<"briefly describe", "if you selected \"other\"", "if you could magically conjure">>

\* identify_question_type with the select-all rule tried before the free-text rule.
identify_question_type_SelectAllFirst(text) ==
    LET lowered == Lower(text)
    IN  IF Contains("consent", lowered) THEN "skip"
        ELSE IF Contains("select all that apply", lowered) THEN "select_all"
        ELSE IF \E i \in DOMAIN FreeTextPhrases : Contains(FreeTextPhrases[i], lowered)
             THEN "free_text"
        ELSE "multiple_choice"

identify_question_type(text) ==
    LET lowered == Lower(text)
    IN  IF Contains("consent", lowered) THEN "skip"
        ELSE IF \E i \in DOMAIN FreeTextPhrases : Contains(FreeTextPhrases[i], lowered)
             THEN "free_text"
        ELSE IF Contains("select all that apply", lowered) THEN "select_all"
        ELSE "multiple_choice"

-----------------------------------------------------------------------------
(* needfinding_results.py: counting                                        *)

\* The answers process_select_all_question leaves out besides the empty one.
SelectAllExcluded == {"n/a", "na", "none"}

\* `if answer and answer.lower() not in ['n/a', 'na', 'none']`
SelectAllCounts(answer) == answer # "" /\ Lower(answer) \notin SelectAllExcluded

\* SelectAllBody with the tokens left untrimmed.
SelectAllBody_Untrimmed(options_so_far, answer) ==
    IF SelectAllCounts(answer) THEN options_so_far \o Split(answer, ";") ELSE options_so_far

\* One iteration of the loop of process_select_all_question.
SelectAllBody(options_so_far, answer) ==
    IF SelectAllCounts(answer)
    THEN LET options == Split(answer, ";")
         IN  options_so_far \o [i \in DOMAIN options |-> Strip(options[i])]
    ELSE options_so_far

RECURSIVE SelectAllOptions(_, _)
SelectAllOptions(answer_list, acc) ==
    IF answer_list = <<>> THEN acc
    ELSE SelectAllOptions(Tail(answer_list), SelectAllBody(acc, Head(answer_list)))

process_select_all_question(answer_list) == Counter(SelectAllOptions(answer_list, <<>>))

\* `ans and ans.lower() not in ['n/a', 'na']`
MultipleChoiceCounts(ans) == ans # "" /\ Lower(ans) \notin {"n/a", "na"}

process_multiple_choice_question(answer_list) ==
    Counter(SelectSeq(answer_list, MultipleChoiceCounts))

-----------------------------------------------------------------------------
(* needfinding_results.py: chart ordering                                  *)

TimesOrder == <<"0 times", "1-2 times", "3-5 times", "6-10 times", "11+ times">>
TripsOrder == <<"0 trips", "1-2 trips", "3-5 trips", "6-10 trips", "11+ trips">>
ToolsOrder ==
    <<"I use completely different tools/services/processes for different trips",
      "I mostly use different tools/services/processes for different trips",
      "Not really sure/It depends",
      "I mostly use the same tools/services/processes for both kinds of trips",
      "I use almost exactly the same tools/services/processes for both kinds of trips">>

\* `'how many trips' in question_lower or 'how many times' in question_lower`
IsFrequencyQuestion(text) ==
    LET question_lower == Lower(text)
    IN  Contains("how many trips", question_lower) \/ Contains("how many times", question_lower)

\* The custom order, or <<>> for Python's None (both are falsy at the caller).
get_custom_order(text) ==
    LET question_lower == Lower(text)
    IN  IF IsFrequencyQuestion(text)
        THEN IF \/ Contains("how many times", question_lower)
                \/ Contains("away from your home city", question_lower)
             THEN TimesOrder
             ELSE TripsOrder
        ELSE IF Contains("same basic tools/processes", question_lower) THEN ToolsOrder
        ELSE <<>>

\* d[k] = v: in place when k is present, appended otherwise.
SetItem(d, k, v) ==
    IF HasKey(d, k)
    THEN [i \in DOMAIN d |-> IF d[i].key = k THEN [key |-> k, count |-> v] ELSE d[i]]
    ELSE Append(d, [key |-> k, count |-> v])

RECURSIVE InsertDescending(_, _)
\* e placed behind every entry whose count is at least e's.
InsertDescending(sorted, e) ==
    IF sorted = <<>> THEN <<e>>
    ELSE IF Head(sorted).count >= e.count
         THEN <<Head(sorted)>> \o InsertDescending(Tail(sorted), e)
         ELSE <<e>> \o sorted

RECURSIVE SortedDescending(_, _)
SortedDescending(d, acc) ==
    IF d = <<>> THEN acc
    ELSE SortedDescending(Tail(d), InsertDescending(acc, Head(d)))

\* dict(sorted(data.items(), key=count, reverse=True)): stable, ties in input order.
SortByFrequency(d) == SortedDescending(d, <<>>)

RECURSIVE ZeroFilled(_, _)
\* ordered_data[item] = data.get(item, 0) for every item of the custom order
ZeroFilled(order, d) ==
    IF order = <<>> THEN <<>>
    ELSE <<[key |-> Head(order), count |-> GetOr(d, Head(order), 0)]>>
            \o ZeroFilled(Tail(order), d)

RECURSIVE AddAll(_, _)
\* ordered[e.key] = e.count for every entry of the list, in order
AddAll(ordered, entries) ==
    IF entries = <<>> THEN ordered
    ELSE AddAll(SetItem(ordered, Head(entries).key, Head(entries).count), Tail(entries))

\* order_data_for_chart with include_zeros ignored: only the categories of the data.
order_data_for_chart_NoZeroFill(d, text, include_zeros) ==
    LET custom_order == get_custom_order(text)
    IN  IF custom_order # <<>>
        THEN LET present == SelectSeq(custom_order, LAMBDA item : HasKey(d, item))
                 first == [i \in DOMAIN present |->
                             [key |-> present[i], count |-> Get(d, present[i])]]
                 rest == SelectSeq(d, LAMBDA e : ~HasKey(first, e.key))
             IN  AddAll(first, rest)
        ELSE SortByFrequency(d)

order_data_for_chart(d, text, include_zeros) ==
    LET custom_order == get_custom_order(text)
    IN  IF custom_order # <<>>
        THEN IF include_zeros /\ IsFrequencyQuestion(text)
             THEN ZeroFilled(custom_order, d)
             ELSE LET present == SelectSeq(custom_order, LAMBDA item : HasKey(d, item))
                      first == [i \in DOMAIN present |->
                                  [key |-> present[i], count |-> Get(d, present[i])]]
                      rest == SelectSeq(d, LAMBDA e : ~HasKey(first, e.key))
                  IN  AddAll(first, rest)
        ELSE SortByFrequency(d)

\* The categories create_bar_chart draws (labels with their values).
BarCategories(d, text) == order_data_for_chart(d, text, TRUE)

\* More categories than this are collapsed by create_pie_chart ...
PieCollapseAbove == 8
\* ... into this many leading categories and the "Other Categories" slice.
PieTopItems == 7

\* PieSlices collapsing as soon as there are more than PieTopItems categories.
PieSlices_CollapseAboveTop(d, text) ==
    LET ordered == order_data_for_chart(d, text, FALSE)
    IN  IF Len(ordered) > PieTopItems
        THEN LET top_items == SubSeq(ordered, 1, PieTopItems)
                 other_count == SumSeq(Values(SubSeq(ordered, PieTopItems + 1, Len(ordered))))
             IN  IF other_count > 0
                 THEN SetItem(top_items, "Other Categories", other_count)
                 ELSE top_items
        ELSE ordered

\* The slices create_pie_chart draws.
PieSlices(d, text) ==
    LET ordered == order_data_for_chart(d, text, FALSE)
    IN  IF Len(ordered) > PieCollapseAbove
        THEN LET top_items == SubSeq(ordered, 1, PieTopItems)
                 other_count == SumSeq(Values(SubSeq(ordered, PieTopItems + 1, Len(ordered))))
             IN  IF other_count > 0
                 THEN SetItem(top_items, "Other Categories", other_count)
                 ELSE top_items
        ELSE ordered

-----------------------------------------------------------------------------
(* Python / numpy floats as exact rationals                                *)

RECURSIVE GCD(_, _)
GCD(a, b) == IF b = 0 THEN a ELSE GCD(b, a % b)

Abs(x) == IF x < 0 THEN -x ELSE x

\* float('nan')
NaN == [nan |-> TRUE, num |-> 0, den |-> 1]

\* The float n / d in lowest terms, d > 0.
Rat(n, d) ==
    LET g == GCD(Abs(n), d)
    IN  [nan |-> FALSE, num |-> n \div g, den |-> d \div g]

\* n / d as numpy divides: 0 / 0 is nan (d = 0 is reached with n = 0 only).
Divide(n, d) == IF d = 0 THEN NaN ELSE Rat(n, d)

\* a < b, a <= b on floats: every comparison with nan is False.
FloatLess(a, b) == ~a.nan /\ ~b.nan /\ a.num * b.den < b.num * a.den
FloatLeq(a, b) == ~a.nan /\ ~b.nan /\ a.num * b.den <= b.num * a.den

\* Python's min(a, b): b when b < a, else a (so min(nan, b) is nan).
PyMin(a, b) == IF FloatLess(b, a) THEN b ELSE a

RECURSIVE MinSeq(_)
MinSeq(s) ==
    IF Len(s) = 1 THEN s[1]
    ELSE LET m == MinSeq(Tail(s)) IN IF Head(s) <= m THEN Head(s) ELSE m

RECURSIVE MaxSeq(_)
MaxSeq(s) ==
    IF Len(s) = 1 THEN s[1]
    ELSE LET m == MaxSeq(Tail(s)) IN IF Head(s) >= m THEN Head(s) ELSE m

RECURSIVE InsertAscending(_, _)
InsertAscending(sorted, x) ==
    IF sorted = <<>> THEN <<x>>
    ELSE IF Head(sorted) <= x
         THEN <<Head(sorted)>> \o InsertAscending(Tail(sorted), x)
         ELSE <<x>> \o sorted

RECURSIVE SortAscending(_)
SortAscending(s) ==
    IF s = <<>> THEN <<>> ELSE InsertAscending(SortAscending(Tail(s)), Head(s))

-----------------------------------------------------------------------------
(* prototype_analysis.py: Likert data and descriptive statistics           *)

\* The answers as numbers with an answer that is not digit-only kept as 0.
NumericAnswers_NonDigitAsZero(answer_list) ==
    [i \in DOMAIN answer_list |->
        IF IsDigit(answer_list[i]) THEN ToInt(answer_list[i]) ELSE 0]

\* numeric_answers = [int(a) for a in answers if a.isdigit()]
NumericAnswers(answer_list) ==
    LET digit_only == SelectSeq(answer_list, IsDigit)
    IN  [i \in DOMAIN digit_only |-> ToInt(digit_only[i])]

\* np.mean(values): nan for an empty list
Mean(values) == Divide(SumSeq(values), Len(values))

\* np.median(values): the middle of the sorted values, nan for an empty list
Median(values) ==
    LET sorted == SortAscending(values)
        n == Len(values)
    IN  IF n = 0 THEN NaN
        ELSE IF n % 2 = 1 THEN Rat(sorted[(n + 1) \div 2], 1)
        ELSE Rat(sorted[n \div 2] + sorted[n \div 2 + 1], 2)

\* Degrees of freedom taken off by np.std(values, ddof=1).
StdDdof == 1

\* The square of np.std(values, ddof): sum((x - mean)^2) / (n - ddof), with
\* x - mean = (n*x - sum) / n; nan when n - ddof is 0.
VarianceWith(values, ddof) ==
    LET n == Len(values)
        total == SumSeq(values)
        squares == SumSeq([i \in DOMAIN values |-> (n * values[i] - total) * (n * values[i] - total)])
    IN  IF n = 0 \/ n - ddof <= 0 THEN NaN ELSE Rat(squares, n * n * (n - ddof))

\* Variance with the population divisor n (ddof = 0).
Variance_Population(values) == VarianceWith(values, 0)

Variance(values) == VarianceWith(values, StdDdof)

\* One entry of calculate_descriptive_stats; 'std' is kept as its square
\* std_squared (std = sqrt(std_squared), nan when std_squared is nan).
DescriptiveStats(values) ==
    [mean |-> Mean(values),
     median |-> Median(values),
     std_squared |-> Variance(values),
     min |-> MinSeq(values),
     max |-> MaxSeq(values),
     n |-> Len(values)]

-----------------------------------------------------------------------------
(* scipy.stats: chi-squared p-values                                       *)
(* A p-value chi2.sf(stat, dof) is kept symbolically; chi2.sf(0, dof) is   *)
(* the float 1.0, and chi2.sf(stat, dof) < 0.05 exactly when stat is above *)
(* the 95% quantile of the chi-squared distribution with dof degrees.      *)

RatAdd(a, b) ==
    IF a.nan \/ b.nan THEN NaN ELSE Rat(a.num * b.den + b.num * a.den, a.den * b.den)

RECURSIVE RatSum(_)
RatSum(terms) == IF terms = <<>> THEN Rat(0, 1) ELSE RatAdd(Head(terms), RatSum(Tail(terms)))

\* The float 1.0 as a p-value.
POne == [kind |-> "one", stat |-> Rat(0, 1), dof |-> 0]
\* nan as a p-value.
PNan == [kind |-> "nan", stat |-> NaN, dof |-> 0]

\* chi2.sf(stat, dof)
ChiSf(stat, dof) ==
    IF stat.nan THEN PNan
    ELSE IF stat.num = 0 THEN POne
    ELSE [kind |-> "sf", stat |-> stat, dof |-> dof]

\* Decimal places of the quantiles below.
QuantileScale == 100000

\* floor(QuantileScale * q) for the 95% quantile q of the chi-squared
\* distribution: 5.99146..., 9.48772..., 12.59158..., 15.50731...
Quantile95 == [dof \in {2, 4, 6, 8} |->
    CASE dof = 2 -> 599146 [] dof = 4 -> 948772 [] dof = 6 -> 1259158 [] dof = 8 -> 1550731]

\* floor(QuantileScale * x) for a float x >= 0
ScaledFloor(x) ==
    (x.num \div x.den) * QuantileScale + ((x.num % x.den) * QuantileScale) \div x.den

\* p_value < 0.05
BelowAlpha(p) == p.kind = "sf" /\ ScaledFloor(p.stat) > Quantile95[p.dof]

-----------------------------------------------------------------------------
(* prototype_analysis.py: ranking questions                                *)

RankedPrototypes == <<"Prototype A", "Prototype B", "Prototype C">>

\* sum(1 for a in answers if name in a)
Votes(answer_list, name) ==
    Cardinality({i \in DOMAIN answer_list : Contains(name, answer_list[i])})

\* The statistic with the terms (f_obs - f_exp)^2 left undivided by f_exp:
\* sum((3*o - n)^2) / 9
ChiSquareUniform_Undivided(observed) ==
    LET n_total == SumSeq(observed)
    IN  Rat(SumSeq([i \in DOMAIN observed |->
                (3 * observed[i] - n_total) * (3 * observed[i] - n_total)]), 9)

\* stats.chisquare(observed, [n_total / 3] * 3): the sum of the terms
\* (o - n/3)^2 / (n/3) = (3*o - n)^2 / (3*n); 0/0 = nan without any vote.
ChiSquareUniform(observed) ==
    LET n_total == SumSeq(observed)
    IN  Divide(SumSeq([i \in DOMAIN observed |->
                (3 * observed[i] - n_total) * (3 * observed[i] - n_total)]),
               3 * n_total)

\* One entry of ranking_results.
RankingRecord(answer_list) ==
    LET observed == [i \in 1..3 |-> Votes(answer_list, RankedPrototypes[i])]
        chi2 == ChiSquareUniform(observed)
        p_value == ChiSf(chi2, Len(observed) - 1)
    IN  [counts |-> observed,
         chi2 |-> chi2,
         p_value |-> p_value,
         significant |-> BelowAlpha(p_value),
         total_responses |-> SumSeq(observed)]

-----------------------------------------------------------------------------
(* prototype_analysis.py: chi-squared omnibus test                         *)

\* for prototype in ['A', 'B', 'C']
Prototypes == <<"A", "B", "C">>

\* range(1, 6)
Ratings == <<1, 2, 3, 4, 5>>

\* The question labels of identify_likert_questions, in their order.
LikertLabels ==
    <<"Understand Tasks", "Understand How to Use", "Easy to Use", "Has Features Needed",
      "Superior to Existing Tools">>

\* questions = list(next(iter(likert_data.values())).keys())
QuestionsOf(ld) == SelectSeq(LikertLabels, LAMBDA q : q \in DOMAIN ld[Prototypes[1]])

\* row = [data.count(i) for i in range(1, 6)]
ContingencyRow(data) == [r \in DOMAIN Ratings |-> CountIn(Ratings[r], data)]

\* The table with the row of prototype B entered twice, in place of C's.
ContingencyTable_RowTypo(ld, q) ==
    [i \in DOMAIN Prototypes |-> ContingencyRow(ld[<<"A", "B", "B">>[i]][q])]

ContingencyTable(ld, q) ==
    [i \in DOMAIN Prototypes |-> ContingencyRow(ld[Prototypes[i]][q])]

RowSum(table, i) == SumSeq(table[i])
ColumnSum(table, j) == SumSeq([i \in DOMAIN table |-> table[i][j]])
TableSum(table) == SumSeq([i \in DOMAIN table |-> RowSum(table, i)])
\* ndarray.size
TableSize(table) == Len(table) * Len(table[1])

\* contingency_table[:, contingency_table.sum(axis=0) > 0]
FilteredTable(table) ==
    LET non_zero_cols == SelectSeq([j \in DOMAIN table[1] |-> j],
                                   LAMBDA j : ColumnSum(table, j) > 0)
    IN  [i \in DOMAIN table |-> [k \in DOMAIN non_zero_cols |-> table[i][non_zero_cols[k]]]]

\* chi2_contingency(observed) for a table with cells: ValueError when an
\* expected frequency row*column/n is 0; chi2 = 0.0 and p = 1.0 when dof is
\* 0; else the sum over the cells, row by row, of (o - e)^2 / e, which is
\* (o*n - row*column)^2 / (n*row*column).  (Yates' correction applies with
\* dof = 1 only, which a table of three rows never has.)
Chi2Contingency(observed) ==
    LET rows == Len(observed)
        cols == Len(observed[1])
        n == TableSum(observed)
        dof == rows * cols - (rows + cols) + 2 - 1
        Term(i, j) ==
            LET o == observed[i][j]
                rc == RowSum(observed, i) * ColumnSum(observed, j)
            IN  Rat((o * n - rc) * (o * n - rc), n * rc)
    IN  IF \E i \in 1..rows, j \in 1..cols : RowSum(observed, i) * ColumnSum(observed, j) = 0
        THEN [raised |-> TRUE, chi2 |-> NaN, p |-> PNan, dof |-> 0]
        ELSE IF dof = 0
        THEN [raised |-> FALSE, chi2 |-> Rat(0, 1), p |-> POne, dof |-> 0]
        ELSE LET chi2 == RatSum([k \in 1..(rows * cols) |->
                                Term(((k - 1) \div cols) + 1, ((k - 1) % cols) + 1)])
             IN  [raised |-> FALSE, chi2 |-> chi2, p |-> ChiSf(chi2, dof), dof |-> dof]

\* The result stored when the test is not run or fails; 'note' is None in
\* the results that have no such key.
Placeholder(table, note) ==
    [chi2 |-> NaN, p_value |-> POne, dof |-> 0, significant |-> FALSE,
     contingency_table |-> table, note |-> note]

\* omnibus_results[question]
OmnibusRecord(ld, q) ==
    LET contingency_table == ContingencyTable(ld, q)
        filtered_table == FilteredTable(contingency_table)
    IN  IF TableSize(filtered_table) > 0 /\ TableSum(filtered_table) > 0
        THEN LET test == Chi2Contingency(filtered_table)
             IN  IF test.raised
                 THEN Placeholder(contingency_table,
                                  "Chi-squared test not applicable due to sparse data")
                 ELSE [chi2 |-> test.chi2, p_value |-> test.p, dof |-> test.dof,
                       significant |-> BelowAlpha(test.p),
                       contingency_table |-> contingency_table, note |-> None]
        ELSE Placeholder(contingency_table, "No variation in data")

-----------------------------------------------------------------------------
(* prototype_analysis.py: pairwise Kolmogorov-Smirnov tests                *)

\* pairs = [('A', 'B'), ('A', 'C'), ('B', 'C')]
Pairs == <<<<"A", "B">>, <<"A", "C">>, <<"B", "C">>>>

\* f'{p1} vs {p2}'
PairName(pair) == pair[1] \o " vs " \o pair[2]

\* `if omnibus['significant']` with the test run whatever the omnibus result.
PairwiseRuns_Always(omnibus) == TRUE

\* `if omnibus['significant']`
PairwiseRuns(omnibus) == omnibus.significant

\* The statistic of ks_2samp(data1, data2): the largest distance between the
\* two empirical distribution functions.
KsStatistic(data1, data2) ==
    LET n1 == Len(data1)
        n2 == Len(data2)
        AtMost(data, x) == Cardinality({i \in DOMAIN data : data[i] <= x})
        Gap(x) == Abs(AtMost(data1, x) * n2 - AtMost(data2, x) * n1)
        points == Range(data1) \cup Range(data2)
    IN  Rat(CHOOSE g \in {Gap(x) : x \in points} : \A x \in points : Gap(x) <= g, n1 * n2)

\* Bonferroni correction (3 comparisons)
BonferroniFactor == 3

\* 0.05
Alpha == Rat(1, 20)

\* The record with the adjusted p-value left uncapped.
PairwiseRecord_Uncapped(ks_stat, p_value) ==
    LET adjusted_p == Rat(p_value.num * BonferroniFactor, p_value.den)
    IN  [ks_statistic |-> ks_stat, p_value |-> p_value,
         adjusted_p_value |-> adjusted_p,
         significant |-> FloatLess(adjusted_p, Alpha)]

\* pairwise_results[question][f'{p1} vs {p2}']
PairwiseRecord(ks_stat, p_value) ==
    LET adjusted_p == Rat(p_value.num * BonferroniFactor, p_value.den)
    IN  [ks_statistic |-> ks_stat, p_value |-> p_value,
         adjusted_p_value |-> PyMin(adjusted_p, Rat(1, 1)),
         significant |-> FloatLess(adjusted_p, Alpha)]

-----------------------------------------------------------------------------
(* Specification of identify_question_type                                 *)

\* Longest question text, in fragments.
MaxFragments == 2

QuestionFragments ==
    {"I CONSENT to take part", "Please briefly describe it",
     "If you selected \"Other\" tell us more",
     "If you could magically conjure a tool", "Select all that apply",
     "Which tool do you use?", "select all that  apply", "Con sent"}

RECURSIVE JoinWords(_)
JoinWords(parts) ==
    IF parts = <<>> THEN ""
    ELSE IF Len(parts) = 1 THEN Head(parts)
    ELSE Head(parts) \o " " \o JoinWords(Tail(parts))

ClassifyTexts(maxn) == {JoinWords(parts) : parts \in SeqsUpTo(QuestionFragments, maxn)}

InitClassify ==
    /\ pc = "classify"
    /\ question_text \in ClassifyTexts(MaxFragments)
    /\ question_type = None
    /\ answers = <<>> /\ idx = 0
    /\ all_options = <<>> /\ counter = <<>> /\ sorted_data = <<>>
    /\ ProtoIdle
    /\ SurveyIdle
    /\ OutIdle

\* question_type = identify_question_type(question_data)
Classify ==
    /\ pc = "classify"
    /\ question_type' = identify_question_type(question_text)
    /\ pc' = "classified"
    /\ UNCHANGED <<question_text, answers, idx, all_options, counter, sorted_data, protoVars, surveyVars, outVars>>

NextClassify == Classify

SpecClassify == InitClassify /\ [][NextClassify]_vars

-----------------------------------------------------------------------------
(* Specification of process_select_all_question                            *)

\* Longest answer list given to process_select_all_question.
MaxSelectAnswers == 3

SelectAnswerPool ==
    {"Maps;Email", "Email", "", "N/A", "na", "None", " Email ; Maps;"}

InitSelectAll ==
    /\ pc = "select_all_loop"
    /\ answers \in SeqsUpTo(SelectAnswerPool, MaxSelectAnswers)
    /\ idx = 0
    /\ all_options = <<>> /\ counter = <<>>
    /\ question_text = None /\ question_type = None /\ sorted_data = <<>>
    /\ ProtoIdle
    /\ SurveyIdle
    /\ OutIdle

\* One iteration of `for answer in answers`.
SelectAllStep ==
    /\ pc = "select_all_loop"
    /\ idx < Len(answers)
    /\ all_options' = SelectAllBody(all_options, answers[idx + 1])
    /\ idx' = idx + 1
    /\ UNCHANGED <<pc, answers, counter, question_text, question_type, sorted_data, protoVars, surveyVars, outVars>>

\* return Counter(all_options)
SelectAllReturn ==
    /\ pc = "select_all_loop"
    /\ idx = Len(answers)
    /\ counter' = Counter(all_options)
    /\ pc' = "select_all_done"
    /\ UNCHANGED <<answers, idx, all_options, question_text, question_type, sorted_data, protoVars, surveyVars, outVars>>

NextSelectAll == SelectAllStep \/ SelectAllReturn

SpecSelectAll == InitSelectAll /\ [][NextSelectAll]_vars

-----------------------------------------------------------------------------
(* Specification of create_bar_chart's ordering                            *)

\* Most categories of a count mapping given to create_bar_chart.
MaxOrderKeys == 3
\* Largest count of a category.
MaxOrderCount == 2

OrderKeyPool == {"0 trips", "3-5 trips", "11+ trips", "1-2 times", "Other"}

OrderTexts ==
    {"How many trips did you take last year?",
     "How many trips away from your home city did you take?",
     "How many times did you travel?",
     "How many trips, and how many times by train?",
     "Do you use the same basic tools/processes for both?",
     "Which tool do you use?"}

RECURSIVE DictsUpTo(_, _, _)
\* The count mappings of at most n entries, with keys of K and counts of C.
DictsUpTo(K, C, n) ==
    IF n = 0 THEN {<<>>}
    ELSE LET shorter == DictsUpTo(K, C, n - 1)
         IN  shorter \cup
             {Append(d, [key |-> k, count |-> c]) :
                 d \in {t \in shorter : Len(t) = n - 1}, k \in K, c \in C}

\* Keys of a dict are distinct.
DistinctKeys(d) == \A i, j \in DOMAIN d : d[i].key = d[j].key => i = j

InitOrder ==
    /\ pc = "bar"
    /\ counter \in {d \in DictsUpTo(OrderKeyPool, 1..MaxOrderCount, MaxOrderKeys) :
                        DistinctKeys(d)}
    /\ question_text \in OrderTexts
    /\ sorted_data = <<>>
    /\ answers = <<>> /\ idx = 0 /\ all_options = <<>> /\ question_type = None
    /\ ProtoIdle
    /\ SurveyIdle
    /\ OutIdle

\* sorted_data = order_data_for_chart(data, question_text, include_zeros=True)
CreateBarChart ==
    /\ pc = "bar"
    /\ sorted_data' = BarCategories(counter, question_text)
    /\ pc' = "bar_done"
    /\ UNCHANGED <<counter, question_text, answers, idx, all_options, question_type, protoVars, surveyVars, outVars>>

NextOrder == CreateBarChart

SpecOrder == InitOrder /\ [][NextOrder]_vars

-----------------------------------------------------------------------------
(* Specification of create_pie_chart                                       *)

\* Most categories of a count mapping given to create_pie_chart.
MaxPieCategories == 9

\* A Counter built from answers holds positive counts only.
PieCounts == {1, 2}

PieKeyNames ==
    <<"Maps", "11+ trips", "Other Categories", "0 trips", "Email", "Phone",
      "Paper", "Friends", "Agency", "Guidebook", "Forum", "Blog">>

PieTexts == {"Which tool do you use?", "How many trips did you take last year?"}

PieData(maxn) ==
    UNION {{[i \in 1..n |-> [key |-> PieKeyNames[i], count |-> c[i]]] :
                c \in [1..n -> PieCounts]} : n \in 0..maxn}

InitPie ==
    /\ pc = "pie"
    /\ counter \in PieData(MaxPieCategories)
    /\ question_text \in PieTexts
    /\ sorted_data = <<>>
    /\ answers = <<>> /\ idx = 0 /\ all_options = <<>> /\ question_type = None
    /\ ProtoIdle
    /\ SurveyIdle
    /\ OutIdle

\* The slices of create_pie_chart(data, title, question_text).
CreatePieChart ==
    /\ pc = "pie"
    /\ sorted_data' = PieSlices(counter, question_text)
    /\ pc' = "pie_done"
    /\ UNCHANGED <<counter, question_text, answers, idx, all_options, question_type, protoVars, surveyVars, outVars>>

NextPie == CreatePieChart

SpecPie == InitPie /\ [][NextPie]_vars

-----------------------------------------------------------------------------
(* Claims about needfinding_results.py                                     *)

RECURSIVE SumFn(_, _)
\* The sum of f over the finite set S.
SumFn(S, f) ==
    IF S = {} THEN 0
    ELSE LET x == CHOOSE y \in S : TRUE IN f[x] + SumFn(S \ {x}, f)

\* The trimmed ';'-separated tokens of one answer.
TokensOf(answer) ==
    LET options == Split(answer, ";") IN [i \in DOMAIN options |-> Strip(options[i])]

\* How often token t occurs in the answers at the positions kept.
TokenTotal(t, answer_list, kept) ==
    SumFn(kept, [i \in kept |-> CountIn(t, TokensOf(answer_list[i]))])

\* c counts exactly the tokens of the answers at the positions kept.
CountsTokensOf(c, answer_list, kept) ==
    /\ DistinctKeys(c)
    /\ \A i \in DOMAIN c : c[i].count > 0 /\ c[i].count = TokenTotal(c[i].key, answer_list, kept)
    /\ \A i \in kept : \A t \in Range(TokensOf(answer_list[i])) : HasKey(c, t)

MapsEmailExample == {[key |-> "Maps", count |-> 1], [key |-> "Email", count |-> 2]}

\* C4, as claimed: the Counter returned by process_select_all_question counts
\* the trimmed tokens of every answer that is non-empty and not "n/a" (in any
\* letter case), nothing else, whatever the order of the answers, and
\* "Maps;Email" with "Email" gives {Maps: 1, Email: 2}.
C4_AsClaimed ==
    pc = "select_all_done" =>
        /\ CountsTokensOf(counter, answers,
                {i \in DOMAIN answers : answers[i] # "" /\ Lower(answers[i]) # "n/a"})
        /\ AsMapping(counter) = AsMapping(process_select_all_question(Reverse(answers)))
        /\ answers = <<"Maps;Email", "Email">> => AsMapping(counter) = MapsEmailExample

\* C4, amended: the Counter returned by process_select_all_question counts the
\* trimmed tokens of every answer that is non-empty and whose lower-cased form
\* is none of "n/a", "na", "none"; the other answers contribute nothing, the
\* order of the answers does not matter, and "Maps;Email" with "Email" gives
\* {Maps: 1, Email: 2}.
C4_SelectAllCounts ==
    pc = "select_all_done" =>
        /\ CountsTokensOf(counter, answers,
                {i \in DOMAIN answers :
                    answers[i] # "" /\ Lower(answers[i]) \notin {"n/a", "na", "none"}})
        /\ AsMapping(counter) = AsMapping(process_select_all_question(Reverse(answers)))
        /\ answers = <<"Maps;Email", "Email">> => AsMapping(counter) = MapsEmailExample

\* C4, witness: the example answers around an excluded "None" are counted.
C4_Witness ==
    /\ pc = "select_all_done"
    /\ answers = <<"Maps;Email", "None", "Email">>
    /\ AsMapping(counter) = MapsEmailExample

\* C5: identify_question_type always returns one of the four labels, decided
\* by the first rule that matches the lower-cased text: 'consent', then a
\* free-text phrase, then 'select all that apply', else multiple_choice.
C5_FirstMatchingRule ==
    pc = "classified" =>
        LET lowered == Lower(question_text)
            consent == Contains("consent", lowered)
            free == \/ Contains("briefly describe", lowered)
                    \/ Contains("if you selected \"other\"", lowered)
                    \/ Contains("if you could magically conjure", lowered)
            select == Contains("select all that apply", lowered)
        IN  /\ question_type \in {"skip", "free_text", "select_all", "multiple_choice"}
            /\ consent => question_type = "skip"
            /\ ~consent /\ free => question_type = "free_text"
            /\ ~consent /\ ~free /\ select => question_type = "select_all"
            /\ ~consent /\ ~free /\ ~select => question_type = "multiple_choice"

\* C5, witness: a text containing both 'consent' and 'select all that apply' is skip.
C5_Witness ==
    /\ pc = "classified"
    /\ Contains("consent", Lower(question_text))
    /\ Contains("select all that apply", Lower(question_text))
    /\ question_type = "skip"

\* d lists exactly the buckets of order, in order, each with its count in c or 0.
ZeroFilledInOrder(d, order, c) ==
    /\ Keys(d) = order
    /\ \A i \in DOMAIN order :
          d[i].count = (IF HasKey(c, order[i]) THEN Get(c, order[i]) ELSE 0)

\* C6, as claimed: for every text containing 'how many trips' the bar chart
\* lists the five "trips" buckets in the fixed order, absent ones with 0.
C6_AsClaimed ==
    pc = "bar_done" /\ Contains("how many trips", Lower(question_text)) =>
        ZeroFilledInOrder(sorted_data, TripsOrder, counter)

\* C6, amended: for a text containing 'how many trips' and neither 'how many
\* times' nor 'away from your home city' the bar chart lists the five "trips"
\* buckets in the fixed order, absent ones with 0 and present ones with their
\* count; a text that also contains one of those two phrases gets the five
\* "times" buckets instead, zero-filled the same way.
C6_TripBuckets ==
    pc = "bar_done" /\ Contains("how many trips", Lower(question_text)) =>
        IF \/ Contains("how many times", Lower(question_text))
           \/ Contains("away from your home city", Lower(question_text))
        THEN ZeroFilledInOrder(sorted_data, TimesOrder, counter)
        ELSE ZeroFilledInOrder(sorted_data,
                <<"0 trips", "1-2 trips", "3-5 trips", "6-10 trips", "11+ trips">>, counter)

\* C6, witness: a trips question with one bucket present and one absent.
C6_Witness ==
    /\ pc = "bar_done"
    /\ question_text = "How many trips did you take last year?"
    /\ HasKey(counter, "3-5 trips") /\ ~HasKey(counter, "0 trips")
    /\ sorted_data[1] = [key |-> "0 trips", count |-> 0]
    /\ sorted_data[3].count > 0

\* The slice named "Other Categories" of the claim: the first 7 categories of
\* the ordered mapping, then one slice with the sum of the others.
TopSevenPlusOther(ordered) ==
    SubSeq(ordered, 1, 7)
        \o <<[key |-> "Other Categories",
              count |-> SumSeq(Values(SubSeq(ordered, 8, Len(ordered))))]>>

\* C7, as claimed: with more than 7 categories the pie shows the first 7 and
\* one "Other" slice holding the sum of the rest, and never more than 8 slices.
C7_AsClaimed ==
    pc = "pie_done" =>
        LET ordered == order_data_for_chart(counter, question_text, FALSE)
        IN  /\ Len(ordered) > 7 => sorted_data = TopSevenPlusOther(ordered)
            /\ Len(sorted_data) <= 8

\* C7, amended: create_pie_chart collapses only when there are more than 8
\* categories: the pie then shows the first 7 categories followed by one
\* "Other Categories" slice holding the sum of the remaining ones (when one of
\* the first 7 is itself named "Other Categories" the sum replaces its count
\* instead of adding a slice); with 8 or fewer categories every category is
\* shown unchanged; the pie never has more than 8 slices.
C7_PieCollapse ==
    pc = "pie_done" =>
        LET ordered == order_data_for_chart(counter, question_text, FALSE)
            first == SubSeq(ordered, 1, 7)
            rest == SumSeq(Values(SubSeq(ordered, 8, Len(ordered))))
        IN  /\ Len(ordered) <= 8 => sorted_data = ordered
            /\ Len(ordered) > 8 /\ ~HasKey(first, "Other Categories") =>
                  sorted_data = TopSevenPlusOther(ordered)
            /\ Len(ordered) > 8 /\ HasKey(first, "Other Categories") =>
                  sorted_data = [i \in 1..7 |->
                        IF first[i].key = "Other Categories"
                        THEN [key |-> "Other Categories", count |-> rest]
                        ELSE first[i]]
            /\ Len(sorted_data) <= 8

\* C7, witness: nine categories shown as seven and "Other Categories".
C7_Witness ==
    /\ pc = "pie_done"
    /\ Len(counter) = 9
    /\ Len(sorted_data) = 8
    /\ sorted_data[8].key = "Other Categories"
    /\ sorted_data[8].count = 3

-----------------------------------------------------------------------------
(* Specification of get_likert_data and calculate_descriptive_stats for    *)
(* one question of one prototype: likert_data and stats_results hold that  *)
(* one cell, the cells being computed independently of each other          *)

\* Longest list of answers to one Likert question.
MaxLikertAnswers == 3

LikertAnswerPool == {"1", "2", "5", "7", "n/a", ""}

InitLikert ==
    /\ pc = "get_likert_data"
    /\ answers \in SeqsUpTo(LikertAnswerPool, MaxLikertAnswers)
    /\ idx = 0
    /\ NeedIdle
    /\ ProtoIdle
    /\ OutIdle

\* prototype_data[q_label] = numeric_answers
GetLikertData ==
    /\ pc = "get_likert_data"
    /\ likert_data' = NumericAnswers(answers)
    /\ pc' = "calculate_descriptive_stats"
    /\ UNCHANGED <<answers, idx, needVars, stats_results, omnibus_results,
                   pairwise_results, ranking_results, outVars>>

\* prototype_stats[question] = {...}
CalculateStats ==
    /\ pc = "calculate_descriptive_stats"
    /\ likert_data # <<>>
    /\ stats_results' = DescriptiveStats(likert_data)
    /\ pc' = "stats_done"
    /\ UNCHANGED <<answers, idx, needVars, likert_data, omnibus_results,
                   pairwise_results, ranking_results, outVars>>

\* np.min of an empty list raises ValueError after mean, median and std gave nan.
CalculateStatsRaises ==
    /\ pc = "calculate_descriptive_stats"
    /\ likert_data = <<>>
    /\ pc' = "raised"
    /\ UNCHANGED <<answers, idx, needVars, protoVars, outVars>>

NextLikert == GetLikertData \/ CalculateStats \/ CalculateStatsRaises

SpecLikert == InitLikert /\ [][NextLikert]_vars

\* The digit-only answers of the list.
DigitOnly(answer_list) == {i \in DOMAIN answer_list : IsDigit(answer_list[i])}

\* The statistics of a non-empty list of values 1..5 that do not involve std.
LikertStatsInRange ==
    /\ FloatLeq(Rat(1, 1), stats_results.mean) /\ FloatLeq(stats_results.mean, Rat(5, 1))
    /\ stats_results.min \in 1..5 /\ stats_results.max \in 1..5
    /\ FloatLeq(Rat(stats_results.min, 1), stats_results.mean)
    /\ FloatLeq(stats_results.mean, Rat(stats_results.max, 1))
    /\ stats_results.n = Cardinality(DigitOnly(answers))

\* std >= 0, std being the square root of std_squared.
StdNonNegative == FloatLeq(Rat(0, 1), stats_results.std_squared)

\* C9, as claimed: for every non-empty list of Likert values 1..5 the mean is
\* in [1,5], min <= mean <= max with min and max in 1..5, n is the number of
\* digit-only answers and the sample standard deviation is non-negative.
C9_AsClaimed ==
    pc = "stats_done" /\ (\A i \in DOMAIN likert_data : likert_data[i] \in 1..5) =>
        LikertStatsInRange /\ StdNonNegative

\* C9, amended: for every non-empty list of Likert values 1..5 the mean is in
\* [1,5], min <= mean <= max with min and max in 1..5 and n is the number of
\* digit-only answers; the sample standard deviation is non-negative when
\* there are at least two values and nan when there is exactly one.
C9_LikertStats ==
    pc = "stats_done" /\ (\A i \in DOMAIN likert_data : likert_data[i] \in 1..5) =>
        /\ LikertStatsInRange
        /\ Cardinality(DigitOnly(answers)) >= 2 => StdNonNegative
        /\ Cardinality(DigitOnly(answers)) = 1 => stats_results.std_squared.nan

\* C9, witness: three answers, one of them dropped, with mean 3 and a positive std.
C9_Witness ==
    /\ pc = "stats_done"
    /\ Len(answers) = 3 /\ stats_results.n = 2
    /\ stats_results.mean = Rat(3, 1)
    /\ FloatLess(Rat(0, 1), stats_results.std_squared)

-----------------------------------------------------------------------------
(* Specification of analyze_ranking_questions for one ranking question     *)

\* Most answers to the ranking question.
MaxVotes == 3

RankingAnswerPool ==
    {"Prototype A", "Prototype B", "Prototype C", "Prototype A, then Prototype B", "none"}

InitRanking ==
    /\ pc = "ranking"
    /\ answers \in SeqsUpTo(RankingAnswerPool, MaxVotes)
    /\ idx = 0
    /\ NeedIdle
    /\ ProtoIdle
    /\ OutIdle

\* ranking_results[label] = {...}
AnalyzeRanking ==
    /\ pc = "ranking"
    /\ ranking_results' = RankingRecord(answers)
    /\ pc' = "ranking_done"
    /\ UNCHANGED <<answers, idx, needVars, likert_data, stats_results, omnibus_results,
                   pairwise_results, outVars>>

NextRanking == AnalyzeRanking

SpecRanking == InitRanking /\ [][NextRanking]_vars

\* C8: the ranking test compares the three vote counts with total/3 each
\* (chi2 = sum(o^2)/(n/3) - n = (3*sum(o^2) - n^2)/n); equal non-zero counts,
\* such as 10, 10, 10, give chi2 = 0, p = 1.0 and no significance; and
\* 'significant' is true exactly when p_value < 0.05.
C8_RankingUniform ==
    /\ ChiSquareUniform(<<10, 10, 10>>) = Rat(0, 1)
    /\ ChiSf(ChiSquareUniform(<<10, 10, 10>>), 2) = POne
    /\ pc = "ranking_done" =>
        LET o == ranking_results.counts
            n == o[1] + o[2] + o[3]
        IN  /\ n > 0 => ranking_results.chi2 =
                            Rat(3 * (o[1] * o[1] + o[2] * o[2] + o[3] * o[3]) - n * n, n)
            /\ o[1] = o[2] /\ o[2] = o[3] /\ o[1] > 0 =>
                  /\ ranking_results.chi2 = Rat(0, 1)
                  /\ ranking_results.p_value = POne
                  /\ ~ranking_results.significant
            /\ ranking_results.significant <=> BelowAlpha(ranking_results.p_value)
            /\ ranking_results.p_value = POne => ~ranking_results.significant

\* C8, witness: one vote for each prototype gives p = 1.0.
C8_Witness ==
    /\ pc = "ranking_done"
    /\ ranking_results.counts = <<1, 1, 1>>
    /\ ranking_results.p_value = POne
    /\ ~ranking_results.significant

-----------------------------------------------------------------------------
(* Specification of perform_chi_squared_omnibus, and of main from there to *)
(* the end of perform_pairwise_ks_tests                                    *)

\* Most respondents of one prototype.
MaxRespondents == 2

\* The values get_likert_data can leave in a list: ratings, and a digit-only
\* answer outside the scale.
RatingPool == {1, 3, 5, 7}

\* The non-empty lists of at most maxn values, smallest value first:
\* data.count(i) and ks_2samp do not depend on the order of a list.
RatingLists(maxn) ==
    {data \in SeqsUpTo(RatingPool, maxn) :
        data # <<>> /\ \A i \in 1..(Len(data) - 1) : data[i] <= data[i + 1]}

OmnibusLabel == "Easy to Use"

\* calculate_descriptive_stats has returned, so no list is empty.
InitOmnibus ==
    /\ pc = "omnibus"
    /\ \E d \in [Range(Prototypes) -> RatingLists(MaxRespondents)] :
          likert_data = [p \in Range(Prototypes) |-> [q \in {OmnibusLabel} |-> d[p]]]
    /\ omnibus_results = <<>> /\ pairwise_results = <<>>
    /\ stats_results = <<>> /\ ranking_results = <<>>
    /\ answers = <<>> /\ idx = 0
    /\ NeedIdle
    /\ OutIdle

\* One iteration of `for question in questions`.
OmnibusQuestion ==
    /\ pc = "omnibus"
    /\ idx < Len(QuestionsOf(likert_data))
    /\ LET question == QuestionsOf(likert_data)[idx + 1]
       IN  omnibus_results' =
               (question :> OmnibusRecord(likert_data, question)) @@ omnibus_results
    /\ idx' = idx + 1
    /\ UNCHANGED <<pc, answers, needVars, likert_data, stats_results, pairwise_results,
                   ranking_results, outVars>>

\* return omnibus_results
OmnibusReturn ==
    /\ pc = "omnibus"
    /\ idx = Len(QuestionsOf(likert_data))
    /\ pc' = "omnibus_done"
    /\ UNCHANGED <<answers, idx, needVars, protoVars, outVars>>

NextOmnibus == OmnibusQuestion \/ OmnibusReturn

SpecOmnibus == InitOmnibus /\ [][NextOmnibus]_vars

\* Resolution of the p-values ks_2samp is given: multiples of 1 / KsGrid.
KsGrid == 120

\* The p-values drawn: significant after correction, 3p = 0.05 or just
\* above, 3p just above 1.0, and 1.0.
KsNumerators == {1, (KsGrid \div 60), (KsGrid \div 3) + 1, KsGrid}

PairwiseLabels == {"Easy to Use", "Has Features Needed"}

\* Answers of the three prototypes to one question: two significant tables,
\* a non-significant one, one without variation, one empty after filtering
\* and one with an empty row.
ExampleData ==
    {<<<<1, 1>>, <<5, 5>>, <<5, 5>>>>, <<<<1, 1>>, <<3, 3>>, <<5, 5>>>>,
     <<<<1, 1>>, <<1, 5>>, <<5, 5>>>>, <<<<3>>, <<3>>, <<3>>>>,
     <<<<7>>, <<7>>, <<7>>>>, <<<<7>>, <<1>>, <<5>>>>}

InitPairwise ==
    /\ pc = "omnibus"
    /\ \E d \in [PairwiseLabels -> ExampleData] :
          likert_data = [p \in Range(Prototypes) |->
                            [q \in PairwiseLabels |->
                                d[q][CHOOSE i \in DOMAIN Prototypes : Prototypes[i] = p]]]
    /\ omnibus_results = <<>> /\ pairwise_results = <<>>
    /\ stats_results = <<>> /\ ranking_results = <<>>
    /\ answers = <<>> /\ idx = 0
    /\ NeedIdle
    /\ OutIdle

\* pairwise_results = perform_pairwise_ks_tests(likert_data, omnibus_results)
PairwiseCall ==
    /\ pc = "omnibus_done"
    /\ pc' = "pairwise"
    /\ idx' = 0
    /\ UNCHANGED <<answers, needVars, protoVars, outVars>>

\* omnibus_results.items(), in insertion order
OmnibusItems == SelectSeq(LikertLabels, LAMBDA q : q \in DOMAIN omnibus_results)

\* The pairs already tested for a question.
PairsDone(question) ==
    IF question \in DOMAIN pairwise_results
    THEN Cardinality(DOMAIN pairwise_results[question])
    ELSE 0

\* An iteration of `for question, omnibus in omnibus_results.items()` whose
\* omnibus test was not significant.
PairwiseSkip ==
    /\ pc = "pairwise"
    /\ idx < Len(OmnibusItems)
    /\ ~PairwiseRuns(omnibus_results[OmnibusItems[idx + 1]])
    /\ idx' = idx + 1
    /\ UNCHANGED <<pc, answers, needVars, protoVars, outVars>>

\* One iteration of `for p1, p2 in pairs` for a significant question (the
\* first one after pairwise_results[question] = {}); ks_2samp returns some
\* p-value in [0, 1].
PairwisePair ==
    /\ pc = "pairwise"
    /\ idx < Len(OmnibusItems)
    /\ PairwiseRuns(omnibus_results[OmnibusItems[idx + 1]])
    /\ LET question == OmnibusItems[idx + 1]
           pair == Pairs[PairsDone(question) + 1]
           data1 == likert_data[pair[1]][question]
           data2 == likert_data[pair[2]][question]
           before == IF question \in DOMAIN pairwise_results
                     THEN pairwise_results[question] ELSE <<>>
       IN  /\ \E k \in KsNumerators :
                pairwise_results' =
                    (question :>
                        ((PairName(pair) :>
                            PairwiseRecord(KsStatistic(data1, data2), Rat(k, KsGrid)))
                         @@ before))
                    @@ pairwise_results
           /\ idx' = IF PairsDone(question) + 1 = Len(Pairs) THEN idx + 1 ELSE idx
    /\ UNCHANGED <<pc, answers, needVars, likert_data, stats_results, omnibus_results,
                   ranking_results, outVars>>

\* return pairwise_results
PairwiseReturn ==
    /\ pc = "pairwise"
    /\ idx = Len(OmnibusItems)
    /\ pc' = "pairwise_done"
    /\ UNCHANGED <<answers, idx, needVars, protoVars, outVars>>

NextPairwise ==
    \/ OmnibusQuestion \/ OmnibusReturn
    \/ PairwiseCall \/ PairwiseSkip \/ PairwisePair \/ PairwiseReturn

SpecPairwise == InitPairwise /\ [][NextPairwise]_vars

-----------------------------------------------------------------------------
(* Claims about perform_chi_squared_omnibus                                *)

\* The table the test is given for a question.
TestedTable(q) == FilteredTable(ContingencyTable(likert_data, q))

\* Every respondent of every prototype gave the same rating.
NoVariation(table) == Len(table[1]) = 1

\* A prototype without a rating: an expected frequency of 0.
TestInapplicable(table) == \E i \in DOMAIN table : RowSum(table, i) = 0

Degenerate(table) ==
    \/ TableSize(table) = 0
    \/ TableSum(table) = 0
    \/ NoVariation(table)
    \/ TestInapplicable(table)

IsPlaceholder(r) ==
    /\ r.chi2 = NaN
    /\ r.p_value = POne
    /\ r.dof = 0
    /\ ~r.significant
    /\ r.note # None

\* C3 as stated: the columns without a rating are dropped, every degenerate
\* table (empty, without variation, or with the test inapplicable) gets a
\* placeholder (p = 1.0, dof = 0, not significant, a note, no statistic), and
\* no result with a note is significant.
C3_AsClaimed ==
    \A q \in DOMAIN omnibus_results :
        LET r == omnibus_results[q]
            table == TestedTable(q)
        IN  /\ \A j \in DOMAIN table[1] : ColumnSum(table, j) > 0
            /\ Degenerate(table) => IsPlaceholder(r)
            /\ r.note # None => ~r.significant

\* C3: a table without variation whose result is not a placeholder: the
\* statistic 0.0 is stored, with no note.
C3_Witness ==
    /\ pc = "omnibus_done"
    /\ \E q \in DOMAIN omnibus_results :
          /\ NoVariation(TestedTable(q))
          /\ ~TestInapplicable(TestedTable(q))
          /\ omnibus_results[q].chi2 = Rat(0, 1)
          /\ omnibus_results[q].note = None

\* The ways of handing the three prototypes' answers over in another order.
Reorderings ==
    {f \in [Range(Prototypes) -> Range(Prototypes)] :
        \A a, b \in Range(Prototypes) : f[a] = f[b] => a = b}

Reordered(ld, f) == [p \in Range(Prototypes) |-> ld[f[p]]]

\* C10: whichever order the prototypes' answers are in, the questions tested
\* are the same and each question's statistic, p-value, degrees of freedom
\* and significance flag are the same.
C10_GroupOrderInvariant ==
    pc = "omnibus_done" =>
        \A f \in Reorderings :
            /\ Range(QuestionsOf(Reordered(likert_data, f))) = DOMAIN omnibus_results
            /\ \A q \in DOMAIN omnibus_results :
                  LET r == omnibus_results[q]
                      s == OmnibusRecord(Reordered(likert_data, f), q)
                  IN  /\ s.chi2 = r.chi2
                      /\ s.p_value = r.p_value
                      /\ s.dof = r.dof
                      /\ s.significant = r.significant

\* A significant result for prototypes whose answers differ from one another.
C10_Witness ==
    /\ pc = "omnibus_done"
    /\ \E q \in DOMAIN omnibus_results :
          /\ omnibus_results[q].significant
          /\ omnibus_results[q].chi2.num > 0
          /\ likert_data["A"][q] # likert_data["B"][q]
          /\ likert_data["B"][q] # likert_data["C"][q]
          /\ likert_data["A"][q] # likert_data["C"][q]

-----------------------------------------------------------------------------
(* Claims about perform_pairwise_ks_tests                                  *)

SignificantQuestions == {q \in DOMAIN omnibus_results : omnibus_results[q].significant}

AllPairNames == {PairName(Pairs[i]) : i \in DOMAIN Pairs}

\* C1: a question has pairwise results only if its omnibus result is
\* significant, which it is exactly when its p-value is below 0.05; when
\* perform_pairwise_ks_tests returns, the questions with pairwise results are
\* exactly the significant ones, each with its three comparisons, and no
\* non-significant or placeholder question has any.
C1_PairwiseIffSignificant ==
    /\ \A q \in DOMAIN omnibus_results :
          omnibus_results[q].significant <=> BelowAlpha(omnibus_results[q].p_value)
    /\ DOMAIN pairwise_results \subseteq SignificantQuestions
    /\ \A q \in DOMAIN omnibus_results :
          (omnibus_results[q].note # None \/ ~omnibus_results[q].significant)
              => q \notin DOMAIN pairwise_results
    /\ pc = "pairwise_done" =>
          /\ DOMAIN pairwise_results = SignificantQuestions
          /\ \A q \in DOMAIN pairwise_results : DOMAIN pairwise_results[q] = AllPairNames

\* One question compared pairwise, another one tested and left out.
C1_Witness ==
    /\ pc = "pairwise_done"
    /\ \E q1, q2 \in DOMAIN omnibus_results :
          /\ omnibus_results[q1].significant
          /\ DOMAIN pairwise_results[q1] = AllPairNames
          /\ ~omnibus_results[q2].significant
          /\ omnibus_results[q2].note = None
          /\ omnibus_results[q2].chi2.num > 0
          /\ q2 \notin DOMAIN pairwise_results

\* C2: for every recorded comparison with raw p-value p in [0, 1], the
\* adjusted p-value is 3p where that is at most 1 and is 1 otherwise, so it
\* is at least p and at most 1, and the comparison is flagged significant
\* exactly when the adjusted p-value is below 0.05.
C2_Bonferroni ==
    \A q \in DOMAIN pairwise_results : \A name \in DOMAIN pairwise_results[q] :
        LET r == pairwise_results[q][name]
            p == r.p_value
        IN  (~p.nan /\ 0 <= p.num /\ p.num <= p.den) =>
                /\ r.adjusted_p_value =
                       IF 3 * p.num <= p.den THEN Rat(3 * p.num, p.den) ELSE Rat(1, 1)
                /\ FloatLeq(p, r.adjusted_p_value)
                /\ FloatLeq(r.adjusted_p_value, Rat(1, 1))
                /\ r.significant <=> FloatLess(r.adjusted_p_value, Rat(5, 100))

\* A comparison whose adjusted p-value is capped, and a significant one.
C2_Witness ==
    \E q \in DOMAIN pairwise_results : \E n1, n2 \in DOMAIN pairwise_results[q] :
        /\ pairwise_results[q][n1].adjusted_p_value = Rat(1, 1)
        /\ FloatLess(pairwise_results[q][n1].p_value, Rat(1, 1))
        /\ FloatLess(Rat(1, 3), pairwise_results[q][n1].p_value)
        /\ pairwise_results[q][n2].significant

-----------------------------------------------------------------------------
(* Claims about the total of create_pie_chart                              *)

\* The key/count pairs of a mapping, as a set.
KeyCountPairs(d) == {<<d[i].key, d[i].count>> : i \in DOMAIN d}

\* C16 as stated: ordering without zero-fill returns the pairs of the input,
\* each once, and the slices drawn sum to the sum of the input counts.
C16_AsClaimed ==
    pc = "pie_done" =>
        LET ordered == order_data_for_chart(counter, question_text, FALSE)
        IN  /\ KeyCountPairs(ordered) = KeyCountPairs(counter)
            /\ Len(ordered) = Len(counter)
            /\ SumSeq(Values(sorted_data)) = SumSeq(Values(counter))

\* C16: a category named "Other Categories" among the first 7 of more than
\* 8: its own count is overwritten by the sum of the collapsed categories.
C16_Witness ==
    /\ pc = "pie_done"
    /\ Len(counter) > 8
    /\ HasKey(counter, "Other Categories")
    /\ HasKey(sorted_data, "Other Categories")
    /\ Len(sorted_data) = 7
    /\ SumSeq(Values(sorted_data)) =
          SumSeq(Values(counter)) - Get(counter, "Other Categories")

-----------------------------------------------------------------------------
(* needfinding_results.py: analyze_survey and save_results                 *)
(* (the text analyze_survey prints is not part of the state)               *)

DigitChars == <<"0", "1", "2", "3", "4", "5", "6", "7", "8", "9">>

RECURSIVE Str(_)
\* str(n) for n >= 0
Str(n) ==
    IF n < 10 THEN DigitChars[n + 1]
    ELSE Str(n \div 10) \o DigitChars[(n % 10) + 1]

\* f'{n:02d}'
TwoDigits(n) == IF n < 10 THEN "0" \o Str(n) ELSE Str(n)

\* f'chart_{chart_number:02d}_q{i+1}_bar.png' and ..._pie.png, i counting from 0
ChartFile(number, i, kind) ==
    "chart_" \o TwoDigits(number) \o "_q" \o Str(i + 1) \o "_" \o kind \o ".png"

\* question_text[:60] + "..." if len(question_text) > 60 else question_text
ShortTitleLength == 60
ShortTitle(text) ==
    IF Len(text) > ShortTitleLength
    THEN SubSeq(text, 1, ShortTitleLength) \o "..."
    ELSE text

\* f"Q{i+1}: {short_title}"
ChartTitle(i, text) == "Q" \o Str(i + 1) \o ": " \o ShortTitle(text)

\* The total taken with the filter of process_multiple_choice_question.
TotalResponses_AsCounted(answer_list) == Len(SelectSeq(answer_list, MultipleChoiceCounts))

\* len([a for a in answers if a and a.lower() not in ['n/a', 'na', 'none']])
TotalResponses(answer_list) ==
    Len(SelectSeq(answer_list,
                  LAMBDA a : a # "" /\ Lower(a) \notin {"n/a", "na", "none"}))

\* The counter of a question that is neither skipped nor free text.
QuestionCounter(type, answer_list) ==
    IF type = "select_all"
    THEN process_select_all_question(answer_list)
    ELSE process_multiple_choice_question(answer_list)

\* `question_type == 'multiple_choice' and len(counter) <= 10`
PieMaxOptions == 10
HasPieChart(type, c) == type = "multiple_choice" /\ Len(c) <= PieMaxOptions

\* A Counter and the dict made of it hold the same items; they differ in class.
CounterObject(c) == [class |-> "Counter", items |-> c]
\* dict(value['statistics'])
Dict(obj) == [class |-> "dict", items |-> obj.items]

\* The entry of a question in results, with every question recorded, those
\* without a counted answer too.
ResultsAfter_AlwaysRecorded(res, c, id, rec) == (id :> rec) @@ res

\* `if counter: ... results[question_id] = {...}`
ResultsAfter(res, c, id, rec) == IF c # <<>> THEN (id :> rec) @@ res ELSE res

\* The charts of a question numbered from its position, not from chart_number.
ChartNumbers_ByQuestion(number, i) == <<i + 1, i + 2>>

\* The numbers of the bar and the pie chart of a question: chart_number, and
\* chart_number after `chart_number += 1`.
ChartNumbers(number, i) == <<number, number + 1>>

\* The charts analyze_survey saves for a question with counter c, in order.
QuestionCharts(number, i, text, type, c) ==
    LET numbers == ChartNumbers(number, i)
        bar == [file |-> ChartFile(numbers[1], i, "bar"),
                figure |-> [kind |-> "bar", title |-> ChartTitle(i, text),
                            categories |-> BarCategories(c, text)]]
        pie == [file |-> ChartFile(numbers[2], i, "pie"),
                figure |-> [kind |-> "pie", title |-> ChartTitle(i, text),
                            categories |-> PieSlices(c, text)]]
    IN  IF c = <<>> THEN <<>>
        ELSE IF HasPieChart(type, c) THEN <<bar, pie>>
        ELSE <<bar>>

-----------------------------------------------------------------------------
(* Specification of analyze_survey followed by save_results                *)

\* Most questions of the survey.
MaxQuestions == 3

SurveyQuestions ==
    {[text |-> "I CONSENT to take part", id |-> "consent", answers |-> <<"Yes", "Yes">>],
     [text |-> "Please briefly describe it", id |-> "describe",
      answers |-> <<"I book late", "">>],
     [text |-> "Which tools do you use? Select all that apply", id |-> "tools",
      answers |-> <<"Maps;Email", "Email", "None">>],
     [text |-> "Which apps do you use? (select all that apply)", id |-> "apps",
      answers |-> <<"none", "N/A", "">>],
     [text |-> "How many trips did you take last year?", id |-> "trips",
      answers |-> <<"1-2 trips", "None", "n/a", "1-2 trips", "3-5 trips">>],
     [text |-> "Which airline do you fly with?", id |-> "airline",
      answers |-> <<"", "N/A", "na">>],
     [text |-> "Which city did you visit most recently, for work or for leisure, last year?",
      id |-> "city",
      answers |-> <<"Rome", "Oslo", "Lima", "Kyiv", "Bern", "Baku", "Doha", "Riga",
                    "Lome", "Male", "Suva">>],
     [text |-> "Which tool do you use?", id |-> "tools",
      answers |-> <<"Maps", "Email", "Maps">>]}

\* data[0]['answers'] is read before the loop: the survey has a question.
InitSurvey ==
    /\ pc = "analyze_survey"
    /\ survey_data \in SeqsUpTo(SurveyQuestions, MaxQuestions) \ {<<>>}
    /\ chart_number = 1 /\ figures = <<>> /\ results = <<>> /\ json_results = <<>>
    /\ question_text = None /\ question_type = None /\ all_options = <<>>
    /\ counter = <<>> /\ sorted_data = <<>>
    /\ answers = <<>> /\ idx = 0
    /\ ProtoIdle
    /\ OutIdle

\* An iteration of `for i, question_data in enumerate(data)` that ends at
\* `continue`.
SurveySkip ==
    /\ pc = "analyze_survey"
    /\ idx < Len(survey_data)
    /\ LET type == identify_question_type(survey_data[idx + 1].text)
       IN  /\ type \in {"skip", "free_text"}
           /\ question_type' = type
    /\ idx' = idx + 1
    /\ UNCHANGED <<pc, answers, question_text, all_options, counter, sorted_data,
                   surveyVars, protoVars, outVars>>

\* An iteration for a select-all or multiple-choice question.
SurveyQuestion ==
    /\ pc = "analyze_survey"
    /\ idx < Len(survey_data)
    /\ LET question_data == survey_data[idx + 1]
           type == identify_question_type(question_data.text)
           c == QuestionCounter(type, question_data.answers)
           charts == QuestionCharts(chart_number, idx, question_data.text, type, c)
           entry == [question |-> question_data.text,
                     type |-> type,
                     statistics |-> CounterObject(c),
                     total_responses |-> TotalResponses(question_data.answers)]
       IN  /\ type \notin {"skip", "free_text"}
           /\ question_type' = type
           /\ question_text' = question_data.text
           /\ answers' = question_data.answers
           /\ counter' = c
           /\ files' = files \o [k \in DOMAIN charts |-> charts[k].file]
           /\ figures' = figures \o [k \in DOMAIN charts |-> charts[k].figure]
           /\ chart_number' = chart_number + Len(charts)
           /\ results' = ResultsAfter(results, c, question_data.id, entry)
    /\ idx' = idx + 1
    /\ UNCHANGED <<pc, all_options, sorted_data, survey_data, json_results, protoVars,
                   stdout, console, report>>

\* return results, figures
AnalyzeSurveyReturn ==
    /\ pc = "analyze_survey"
    /\ idx = Len(survey_data)
    /\ pc' = "save_results"
    /\ UNCHANGED <<answers, idx, needVars, protoVars, outVars>>

\* save_results(results)
SaveResults ==
    /\ pc = "save_results"
    /\ json_results' =
          [key \in DOMAIN results |->
              [question |-> results[key].question,
               type |-> results[key].type,
               statistics |-> Dict(results[key].statistics),
               total_responses |-> results[key].total_responses]]
    /\ files' = Append(files, "survey_results.json")
    /\ pc' = "survey_done"
    /\ UNCHANGED <<answers, idx, question_text, question_type, all_options, counter,
                   sorted_data, survey_data, chart_number, figures, results, protoVars,
                   stdout, console, report>>

NextSurvey == SurveySkip \/ SurveyQuestion \/ AnalyzeSurveyReturn \/ SaveResults

SpecSurvey == InitSurvey /\ [][NextSurvey]_vars

-----------------------------------------------------------------------------
(* Claims about analyze_survey and save_results                            *)

\* The chart files among the files written.
ChartFiles == SelectSeq(files, LAMBDA name : name # "survey_results.json")

\* A file name chart_<NN>_q<i>_<kind>.png read back: its parts between the
\* underscores.
NameParts(name) == Split(name, "_")
WellFormedChartName(name) ==
    LET parts == NameParts(name)
    IN  /\ Len(parts) = 4
        /\ parts[1] = "chart"
        /\ Len(parts[2]) >= 2 /\ IsDigit(parts[2])
        /\ Len(parts[3]) >= 2 /\ SubSeq(parts[3], 1, 1) = "q" /\ IsDigit(Tail(parts[3]))
        /\ parts[4] \in {"bar.png", "pie.png"}
NumberOf(name) == ToInt(NameParts(name)[2])
QuestionOf(name) == ToInt(Tail(NameParts(name)[3]))
KindOf(name) == NameParts(name)[4]

\* The questions seen so far that are select-all or multiple choice and
\* have a counted answer, by 1-based position.
CountedQuestions ==
    {i \in 1..idx :
        LET type == identify_question_type(survey_data[i].text)
        IN  /\ type \in {"select_all", "multiple_choice"}
            /\ QuestionCounter(type, survey_data[i].answers) # <<>>}

\* C11: the k-th chart saved is named chart_<k>_q<i>_<bar|pie>.png (k in at
\* least two digits), i being the 1-based position of a question that is
\* neither skipped nor free text and has a counted answer; the charts follow
\* the order of the questions; every such question has exactly one bar
\* chart, and its pie chart, if any, is the file saved right after its bar
\* chart; chart_number is always one more than the number of charts saved.
C11_ChartNumbering ==
    pc \in {"analyze_survey", "save_results", "survey_done"} =>
        LET charts == ChartFiles
        IN  /\ chart_number = Len(charts) + 1
            /\ \A k \in DOMAIN charts :
                  /\ WellFormedChartName(charts[k])
                  /\ NumberOf(charts[k]) = k
                  /\ QuestionOf(charts[k]) \in CountedQuestions
            /\ \A k, l \in DOMAIN charts :
                  k < l => QuestionOf(charts[k]) <= QuestionOf(charts[l])
            /\ \A i \in CountedQuestions :
                  Cardinality({k \in DOMAIN charts :
                      QuestionOf(charts[k]) = i /\ KindOf(charts[k]) = "bar.png"}) = 1
            /\ \A l \in DOMAIN charts :
                  KindOf(charts[l]) = "pie.png" =>
                      /\ l > 1
                      /\ KindOf(charts[l - 1]) = "bar.png"
                      /\ QuestionOf(charts[l - 1]) = QuestionOf(charts[l])

\* A skipped first question, then a question with both charts, then a
\* question with a bar chart only.
C11_Witness ==
    /\ pc = "survey_done"
    /\ files = <<"chart_01_q2_bar.png", "chart_02_q2_pie.png", "chart_03_q3_bar.png",
                 "survey_results.json">>

\* The entry analyze_survey builds for the question at position i.
EntryOf(i) ==
    LET type == identify_question_type(survey_data[i].text)
    IN  [question |-> survey_data[i].text,
         type |-> type,
         statistics |-> QuestionCounter(type, survey_data[i].answers),
         total_responses |-> TotalResponses(survey_data[i].answers)]

\* The last question seen so far with the given id that has a counted answer.
LastCounted(id) ==
    CHOOSE i \in CountedQuestions :
        /\ survey_data[i].id = id
        /\ \A j \in CountedQuestions : survey_data[j].id = id => j <= i

\* C12: results holds an entry {question, type, statistics, total_responses}
\* under the id of exactly the select-all and multiple-choice questions seen
\* so far that have a counted answer (the last such question of an id), so
\* none for a skipped or free-text question or for an empty count;
\* save_results writes the same ids with the same question, type, counts and
\* total_responses, the counts as a dict, into survey_results.json.
C12_ResultsSummary ==
    pc \in {"analyze_survey", "save_results", "survey_done"} =>
        /\ DOMAIN results = {survey_data[i].id : i \in CountedQuestions}
        /\ \A id \in DOMAIN results :
              LET entry == EntryOf(LastCounted(id))
              IN  /\ DOMAIN results[id] =
                        {"question", "type", "statistics", "total_responses"}
                  /\ results[id].question = entry.question
                  /\ results[id].type = entry.type
                  /\ results[id].type \in {"select_all", "multiple_choice"}
                  /\ results[id].statistics.items = entry.statistics
                  /\ results[id].statistics.items # <<>>
                  /\ results[id].total_responses = entry.total_responses
        /\ pc = "survey_done" =>
              /\ files[Len(files)] = "survey_results.json"
              /\ DOMAIN json_results = DOMAIN results
              /\ \A id \in DOMAIN results :
                    /\ DOMAIN json_results[id] = DOMAIN results[id]
                    /\ json_results[id].question = results[id].question
                    /\ json_results[id].type = results[id].type
                    /\ json_results[id].statistics.class = "dict"
                    /\ json_results[id].statistics.items = results[id].statistics.items
                    /\ json_results[id].total_responses = results[id].total_responses

\* A survey with a skipped question, a question without a counted answer and
\* a counted one, saved with the counted one only.
C12_Witness ==
    /\ pc = "survey_done"
    /\ Cardinality(DOMAIN json_results) = 1
    /\ \E i, j, k \in DOMAIN survey_data :
          /\ identify_question_type(survey_data[i].text) = "skip"
          /\ identify_question_type(survey_data[j].text) = "multiple_choice"
          /\ j \notin CountedQuestions
          /\ survey_data[j].id \notin DOMAIN json_results
          /\ k \in CountedQuestions
          /\ json_results[survey_data[k].id].statistics.items # <<>>

-----------------------------------------------------------------------------
(* Specification of analyze_survey and save_results for a survey of one    *)
(* question, over the lists of answers                                     *)

\* Longest list of answers to the question.
MaxSurveyAnswers == 3

SurveyAnswerPool == {"Maps", "Maps;Email", "None", "none ", "n/a", "", "NONE"}

SurveyTexts ==
    {"I CONSENT to take part", "Which tools do you use? Select all that apply",
     "Which tool do you use?"}

InitSurveyAnswers ==
    /\ pc = "analyze_survey"
    /\ \E text \in SurveyTexts, answer_list \in SeqsUpTo(SurveyAnswerPool, MaxSurveyAnswers) :
          survey_data = <<[text |-> text, id |-> "q", answers |-> answer_list]>>
    /\ chart_number = 1 /\ figures = <<>> /\ results = <<>> /\ json_results = <<>>
    /\ question_text = None /\ question_type = None /\ all_options = <<>>
    /\ counter = <<>> /\ sorted_data = <<>>
    /\ answers = <<>> /\ idx = 0
    /\ ProtoIdle
    /\ OutIdle

SpecSurveyAnswers == InitSurveyAnswers /\ [][NextSurvey]_vars

\* C15: for every question in results, total_responses is at most the sum of
\* the counts in statistics; for a multiple-choice question the two are
\* equal exactly when no answer of the question is "none" in any letter case.
C15_TotalAtMostCounts ==
    \A id \in DOMAIN results :
        LET r == results[id]
            counted == SumSeq(Values(r.statistics.items))
            given == survey_data[LastCounted(id)].answers
        IN  /\ r.total_responses <= counted
            /\ r.type = "multiple_choice" =>
                  (r.total_responses = counted
                      <=> \A k \in DOMAIN given : Lower(given[k]) # "none")

\* A multiple-choice question with an answer "None": counted, and left out of
\* total_responses.
C15_Witness ==
    /\ pc = "survey_done"
    /\ "q" \in DOMAIN results
    /\ results["q"].type = "multiple_choice"
    /\ survey_data[1].answers = <<"Maps", "None", "Maps">>
    /\ results["q"].statistics.items =
          <<[key |-> "Maps", count |-> 2], [key |-> "None", count |-> 1]>>
    /\ results["q"].total_responses = 2

-----------------------------------------------------------------------------
(* prototype_analysis.py: main                                             *)
(* answers holds the answers of the data frame: answers.likert[p][q] for   *)
(* the Likert question q of prototype p, answers.ranking[label] for the    *)
(* ranking questions.  A printed report is kept as the results it is       *)
(* formatted from; progress lines are kept as their text.                  *)

\* get_likert_data(df, likert_questions)
LikertDataOf(raw) ==
    [p \in DOMAIN raw |-> [q \in DOMAIN raw[p] |-> NumericAnswers(raw[p][q])]]

\* calculate_descriptive_stats raises: np.min of an empty list, for some
\* question of some prototype.
StatsRaise(ld) == \E p \in DOMAIN ld : \E q \in DOMAIN ld[p] : ld[p][q] = <<>>

\* calculate_descriptive_stats(likert_data), when it returns
StatsOf(ld) == [p \in DOMAIN ld |-> [q \in DOMAIN ld[p] |-> DescriptiveStats(ld[p][q])]]

\* The ranking labels of analyze_ranking_questions.
RankingLabels == {"BEST", "SECOND BEST", "WORST"}

\* analyze_ranking_questions(df)
RankingOf(raw) == [label \in DOMAIN raw |-> RankingRecord(raw[label])]

\* The files of create_bar_charts with the distribution plots saved first.
BarChartFiles_DistributionFirst == <<"distribution_plots.png", "mean_scores_comparison.png">>

\* The files create_bar_charts saves, in order.
BarChartFiles == <<"mean_scores_comparison.png", "distribution_plots.png">>

\* A line of text printed.
Line(text) == [line |-> text]

\* What print_results prints: the four results, formatted.
ResultsReport == [stats |-> stats_results, omnibus |-> omnibus_results,
                  pairwise |-> pairwise_results, ranking |-> ranking_results]

\* print(...): to the console, or into the file sys.stdout has been set to.
PrintTo(item) ==
    IF stdout = "console"
    THEN console' = Append(console, item) /\ report' = report
    ELSE report' = Append(report, item) /\ console' = console

-----------------------------------------------------------------------------
(* Specification of main of prototype_analysis.py, from the loaded data    *)

\* Longest list of answers to a Likert question.
MaxMainAnswers == 2

MainAnswerPool == {"1", "5", "n/a"}

\* The lists of at most maxn answers, in the order of the pool's strings as
\* listed ("1", "5", "n/a"): no statistic depends on the order of a list.
MainAnswerRank(a) == CASE a = "1" -> 1 [] a = "5" -> 2 [] OTHER -> 3
MainAnswerLists(maxn) ==
    {l \in SeqsUpTo(MainAnswerPool, maxn) :
        \A i \in 1..(Len(l) - 1) : MainAnswerRank(l[i]) <= MainAnswerRank(l[i + 1])}

MainRankingAnswers ==
    [label \in RankingLabels |->
        CASE label = "BEST" -> <<"Prototype A", "Prototype A", "Prototype B">>
          [] label = "SECOND BEST" -> <<"Prototype B", "Prototype C", "Prototype A">>
          [] OTHER -> <<"none">>]

InitMain ==
    /\ pc = "main"
    /\ \E raw \in [Range(Prototypes) -> MainAnswerLists(MaxMainAnswers)] :
          answers = [likert |-> [p \in Range(Prototypes) |->
                                    [q \in {OmnibusLabel} |-> raw[p]]],
                     ranking |-> MainRankingAnswers]
    /\ idx = 0
    /\ NeedIdle
    /\ ProtoIdle
    /\ OutIdle

\* likert_data = get_likert_data(df, likert_questions)
MainGetLikertData ==
    /\ pc = "main"
    /\ likert_data' = LikertDataOf(answers.likert)
    /\ console' = console \o <<Line("Loading data..."), Line("Processing Likert scale questions...")>>
    /\ pc' = "main_stats"
    /\ UNCHANGED <<answers, idx, needVars, stats_results, omnibus_results,
                   pairwise_results, ranking_results, files, stdout, report>>

\* stats_results = calculate_descriptive_stats(likert_data)
MainCalculateStats ==
    /\ pc = "main_stats"
    /\ ~StatsRaise(likert_data)
    /\ stats_results' = StatsOf(likert_data)
    /\ console' = Append(console, Line("Calculating descriptive statistics..."))
    /\ pc' = "main_charts"
    /\ UNCHANGED <<answers, idx, needVars, likert_data, omnibus_results,
                   pairwise_results, ranking_results, files, stdout, report>>

\* calculate_descriptive_stats raises and main has no handler: the run ends.
MainCalculateStatsRaises ==
    /\ pc = "main_stats"
    /\ StatsRaise(likert_data)
    /\ console' = Append(console, Line("Calculating descriptive statistics..."))
    /\ pc' = "raised"
    /\ UNCHANGED <<answers, idx, needVars, protoVars, files, stdout, report>>

\* create_bar_charts(likert_data, stats_results), up to the call of
\* perform_chi_squared_omnibus
MainCreateBarCharts ==
    /\ pc = "main_charts"
    /\ files' = files \o BarChartFiles
    /\ console' = console \o <<Line("Creating visualizations..."),
                               Line("Performing chi-squared omnibus tests...")>>
    /\ pc' = "omnibus"
    /\ idx' = 0
    /\ UNCHANGED <<answers, needVars, protoVars, stdout, report>>

\* ranking_results = analyze_ranking_questions(df)
MainAnalyzeRanking ==
    /\ pc = "pairwise_done"
    /\ ranking_results' = RankingOf(answers.ranking)
    /\ console' = Append(console, Line("Analyzing ranking questions..."))
    /\ pc' = "main_ranking_chart"
    /\ UNCHANGED <<answers, idx, needVars, likert_data, stats_results, omnibus_results,
                   pairwise_results, files, stdout, report>>

\* create_ranking_visualization(ranking_results)
MainRankingVisualization ==
    /\ pc = "main_ranking_chart"
    /\ files' = Append(files, "ranking_analysis.png")
    /\ pc' = "main_summary"
    /\ UNCHANGED <<answers, idx, needVars, protoVars, stdout, console, report>>

\* summary_df = create_summary_table(stats_results)
MainSummaryTable ==
    /\ pc = "main_summary"
    /\ files' = Append(files, "summary_table.png")
    /\ console' = Append(console, Line("Creating summary table..."))
    /\ pc' = "main_print"
    /\ UNCHANGED <<answers, idx, needVars, protoVars, stdout, report>>

\* print_results(...) on the console
MainPrintResults ==
    /\ pc = "main_print"
    /\ PrintTo(ResultsReport)
    /\ pc' = "main_open"
    /\ UNCHANGED <<answers, idx, needVars, protoVars, files, stdout>>

\* with open('./analysis_results.txt', 'w') as f: ... sys.stdout = f
MainOpenReport ==
    /\ pc = "main_open"
    /\ console' = Append(console, Line("Saving results to file..."))
    /\ files' = Append(files, "analysis_results.txt")
    /\ stdout' = "analysis_results.txt"
    /\ pc' = "main_report"
    /\ UNCHANGED <<answers, idx, needVars, protoVars, report>>

\* print_results(...) with sys.stdout set to the file
MainPrintReport ==
    /\ pc = "main_report"
    /\ PrintTo(ResultsReport)
    /\ pc' = "main_restore"
    /\ UNCHANGED <<answers, idx, needVars, protoVars, files, stdout>>

\* sys.stdout = original_stdout, the last message, and the return
MainReturn ==
    /\ pc = "main_restore"
    /\ stdout' = "console"
    /\ console' = Append(console, Line("Analysis complete!"))
    /\ pc' = "main_done"
    /\ UNCHANGED <<answers, idx, needVars, protoVars, files, report>>

NextMain ==
    \/ MainGetLikertData \/ MainCalculateStats \/ MainCalculateStatsRaises
    \/ MainCreateBarCharts
    \/ OmnibusQuestion \/ OmnibusReturn
    \/ PairwiseCall \/ PairwiseSkip \/ PairwisePair \/ PairwiseReturn
    \/ MainAnalyzeRanking \/ MainRankingVisualization \/ MainSummaryTable
    \/ MainPrintResults \/ MainOpenReport \/ MainPrintReport \/ MainReturn

SpecMain == InitMain /\ [][NextMain]_vars

-----------------------------------------------------------------------------
(* Claims about main of prototype_analysis.py                              *)

OutputFiles ==
    <<"mean_scores_comparison.png", "distribution_plots.png", "ranking_analysis.png",
      "summary_table.png", "analysis_results.txt">>

\* C13: the files written are always the first ones of mean_scores_comparison,
\* distribution_plots, ranking_analysis, summary_table, analysis_results.txt,
\* in that order; the report file is opened only after the results were
\* printed on the console, and sys.stdout points away from the console only
\* while the report is written; when main returns, all five files are
\* written, each once, the report file holds one report, formatted from the
\* results main returns, the same as the one printed on the console, and
\* sys.stdout is the console again.
C13_OutputOrder ==
    /\ Len(files) <= Len(OutputFiles)
    /\ files = SubSeq(OutputFiles, 1, Len(files))
    /\ "analysis_results.txt" \in Range(files) => ResultsReport \in Range(console)
    /\ stdout # "console" => pc \in {"main_report", "main_restore"}
    /\ report # <<>> => "analysis_results.txt" \in Range(files)
    /\ pc = "main_done" =>
          /\ files = OutputFiles
          /\ report = <<ResultsReport>>
          /\ Cardinality({k \in DOMAIN console : console[k] = ResultsReport}) = 1
          /\ stdout = "console"
          /\ console[Len(console)] = Line("Analysis complete!")

\* A run that ends with pairwise comparisons in the report.
C13_Witness ==
    /\ pc = "main_done"
    /\ files = OutputFiles
    /\ DOMAIN report[1].pairwise # {}
    /\ stdout = "console"

\* The non-digit answers given to a question.
NonDigit(answer_list) == {k \in DOMAIN answer_list : ~IsDigit(answer_list[k])}

\* Some question of some prototype has no digit-only answer.
SomeListEmpty ==
    \E p \in DOMAIN answers.likert : \E q \in DOMAIN answers.likert[p] :
        \A k \in DOMAIN answers.likert[p][q] : ~IsDigit(answers.likert[p][q][k])

\* C14: get_likert_data returns for every input, with the digit-only answers
\* of each question as integers, in order, and the others dropped; and the run
\* ends in calculate_descriptive_stats, with no file written and nothing in
\* the report, exactly when some question of some prototype is left without
\* a numeric answer: no later step of main is then reached.
C14_MalformedLikert ==
    /\ pc # "main" =>
          \A p \in DOMAIN answers.likert : \A q \in DOMAIN answers.likert[p] :
              LET given == answers.likert[p][q]
                  kept == SelectSeq(given, IsDigit)
              IN  /\ Len(likert_data[p][q]) = Len(given) - Cardinality(NonDigit(given))
                  /\ \A k \in DOMAIN kept : likert_data[p][q][k] = ToInt(kept[k])
    /\ pc = "raised" =>
          /\ SomeListEmpty
          /\ files = <<>> /\ report = <<>>
          /\ stats_results = <<>>
    /\ SomeListEmpty => pc \in {"main", "main_stats", "raised"}
    /\ SomeListEmpty => files = <<>> /\ report = <<>>

\* A run that fails on prototype C, whose only answer is not a number, after
\* an answer of prototype A was dropped.
C14_Witness ==
    /\ pc = "raised"
    /\ answers.likert["A"][OmnibusLabel] = <<"5", "n/a">>
    /\ likert_data["A"][OmnibusLabel] = <<5>>
    /\ likert_data["B"][OmnibusLabel] # <<>>
    /\ answers.likert["C"][OmnibusLabel] = <<"n/a">>
    /\ likert_data["C"][OmnibusLabel] = <<>>
    /\ files = <<>>

=============================================================================
